---- MODULE Spec2Model ----
(***************************************************************************)
(* strawberryfields.apps.points: rbf_kernel and sample.                    *)
(*                                                                         *)
(* Number model.  Coordinates are floats with integer values.  A bandwidth *)
(* sigma is given in hundredths (sigma = s/100).  The argument of np.exp   *)
(* is carried as an exact rational, or as one of the IEEE-754 specials     *)
(* (-0.0, -inf, +inf, nan).  The value of np.exp is carried as its IEEE    *)
(* class ("pos", "zero", "nan", ...) together with the value rounded to    *)
(* millionths (micro), so 1.0 is [cls "pos", micro 10^6] and a tiny        *)
(* positive double is [cls "pos", micro 0].                                *)
(*                                                                         *)
(* The rational is the real value of the expression; the double the code   *)
(* holds is within a few units in the last place of it, and the last bit   *)
(* of np.exp is the platform's.  Wherever that margin decides the result   *)
(* (an exponent at the underflow threshold of exp, a value at half a       *)
(* millionth) np.exp is given every result the margin allows, and a call   *)
(* of rbf_kernel takes one of them.                                        *)
(*                                                                         *)
(* sample is followed through its two external calls.  The routines of     *)
(* thewalrus are outside the module: the rescaling returns a pair (ls, O)  *)
(* sized by K or raises, the generator returns num_samples arrays of       *)
(* len(ls) counts drawn from the library's random state or raises.         *)
(***************************************************************************)
EXTENDS Integers, Sequences, FiniteSets

\* one call of rbf_kernel: its arguments, its outcome, the caller's position
VARIABLES kR, kSigma, kOut, kpc

\* one call of sample: its arguments, its locals ls and O, the external calls
\* made so far with their outcomes, its outcome, the position in its body;
\* rng is the random state of the external library, sSeed the value rng had
\* when the call began, and prev the last call that returned
VARIABLES sK, sNMean, sNSamples, sLs, sO, sLog, sOut, spc, rng, sSeed, prev

kvars == <<kR, kSigma, kOut, kpc>>
svars == <<sK, sNMean, sNSamples, sLs, sO, sLog, sOut, spc, rng, sSeed, prev>>
vars == <<kvars, svars>>

\* ---------------------------------------------------------------- bounds
MaxN == 2
MaxCoord == 1
MaxSamples == 2
MaxCount == 2
RngMod == 4

\* ------------------------------------------------------- exact rationals
Abs(x) == IF x < 0 THEN -x ELSE x

RECURSIVE Gcd(_, _)
Gcd(a, b) == IF b = 0 THEN a ELSE Gcd(b, a % b)

\* a finite double whose value is the rational n/d (d > 0), in lowest terms
Fin(n, d) ==
    LET g == Gcd(Abs(n), d)
    IN  [cls |-> "fin", num |-> n \div g, den |-> d \div g]

NegZero == [cls |-> "nzero", num |-> 0, den |-> 1]
NegInf == [cls |-> "ninf", num |-> 0, den |-> 1]
PosInf == [cls |-> "pinf", num |-> 0, den |-> 1]
NaN == [cls |-> "nan", num |-> 0, den |-> 1]

\* the sign bit of a double that is not nan: 1 or -1
Sgn(x) ==
    IF x.cls \in {"nzero", "ninf"} \/ (x.cls = "fin" /\ x.num < 0) THEN -1 ELSE 1

IsZero(x) == x.cls = "nzero" \/ (x.cls = "fin" /\ x.num = 0)
IsInf(x) == x.cls \in {"ninf", "pinf"}

\* unary minus of a double: the sign bit is flipped
FNeg(x) ==
    CASE x.cls = "nan" -> NaN
      [] x.cls = "pinf" -> NegInf
      [] x.cls = "ninf" -> PosInf
      [] x.cls = "nzero" -> Fin(0, 1)
      [] x.cls = "fin" -> IF x.num = 0 THEN NegZero ELSE Fin(-x.num, x.den)

\* np.sqrt of a non-negative finite double: the value is kept as the exact
\* surd, the square root of num/den
FSqrt(x) == [cls |-> "sqrt", num |-> x.num, den |-> x.den]

\* x ** 2.  The square of a surd is its radicand: the real value, which the
\* double sqrt(d2) ** 2 meets to within one unit in the last place
FSquare(x) ==
    CASE x.cls = "nan" -> NaN
      [] x.cls \in {"pinf", "ninf"} -> PosInf
      [] x.cls = "nzero" -> Fin(0, 1)
      [] x.cls = "fin" -> Fin(x.num * x.num, x.den * x.den)
      [] x.cls = "sqrt" -> Fin(x.num, x.den)

\* x / y as numpy divides doubles: nothing is raised.  0/0 and inf/inf are
\* nan; otherwise the sign is the product of the signs, a division by zero
\* or of an infinity gives an infinity, a division of zero or by an infinity
\* gives a zero
FDiv(x, y) ==
    IF x.cls = "nan" \/ y.cls = "nan" THEN NaN
    ELSE IF (IsZero(x) /\ IsZero(y)) \/ (IsInf(x) /\ IsInf(y)) THEN NaN
    ELSE IF IsInf(x) \/ IsZero(y)
        THEN (IF Sgn(x) * Sgn(y) = 1 THEN PosInf ELSE NegInf)
    ELSE IF IsZero(x) \/ IsInf(y)
        THEN (IF Sgn(x) * Sgn(y) = 1 THEN Fin(0, 1) ELSE NegZero)
    ELSE Fin(Sgn(y) * x.num * y.den, x.den * Abs(y.num))

\* --------------------------------------------------------------- np.exp
\* The exponential is computed in fixed point.  A number X / 10^12 is the
\* triple <<h, m, l>> of base-10^4 limbs, X = h * 10^8 + m * 10^4 + l, so
\* that every step fits 32 bits.  Each step rounds to the nearest 10^-12.

\* the limbs with the carries taken
Norm3(h, m, l) ==
    LET m2 == m + (l \div 10000)
    IN  << h + (m2 \div 10000), m2 % 10000, l % 10000 >>

\* A + B
Add3(A, B) == Norm3(A[1] + B[1], A[2] + B[2], A[3] + B[3])

\* A * B, rounded
Mul3(A, B) ==
    LET c12 == A[3] * B[3]
        c8 == A[2] * B[3] + A[3] * B[2]
        c4 == A[1] * B[3] + A[2] * B[2] + A[3] * B[1]
        c0 == A[1] * B[2] + A[2] * B[1]
        t8 == (c8 + (c12 \div 10000)) \div 10000
        t4 == (c4 + t8 + 5000) \div 10000
        v0 == c0 + t4
        v1 == A[1] * B[1] + (v0 \div 10000)
    IN  << v1 \div 10000, v1 % 10000, v0 % 10000 >>

\* A * r / m for naturals r <= m, rounded (long division, limb by limb)
Scale3(A, r, m) ==
    LET a1 == A[1] * r
        a2 == (a1 % m) * 10000 + A[2] * r
        a3 == (a2 % m) * 10000 + A[3] * r + (m \div 2)
    IN  Norm3(a1 \div m, a2 \div m, a3 \div m)

\* the Taylor series of exp(r/d), 0 < r <= d, summed from term i on; t is
\* term i.  Every term is rounded, so the sum is exp(r/d) to within
\* 12 * 10^-12 and not to the last limb
RECURSIVE ExpSeries(_, _, _, _)
ExpSeries(t, i, r, d) ==
    IF t = <<0, 0, 0>> THEN t
    ELSE Add3(t, ExpSeries(Scale3(t, r, d * (i + 1)), i + 1, r, d))

\* exp(-k) for a natural k >= 1, to within 2 * 10^-12; exp(-1) is
\* 0.367879441171
RECURSIVE ExpInt(_)
ExpInt(k) ==
    IF k = 1 THEN <<3678, 7944, 1171>>
    ELSE Mul3(<<3678, 7944, 1171>>, ExpInt(k - 1))

\* exp(-n/d), n >= 0, d > 0, n/d < 15, to within 20 * 10^-12: with k the
\* integer part of n/d and f its fraction, exp(-(k + 1)) * exp(1 - f)
ExpNegFix(n, d) ==
    Mul3(ExpInt((n \div d) + 1), ExpSeries(<<10000, 0, 0>>, 0, d - (n % d), d))

\* the millionths exp(-n/d) may round to, n >= 0, d > 0: one value, or the
\* two next to a half-millionth that lies within 20 * 10^-12 of ExpNegFix
ExpNegMicro(n, d) ==
    IF n \div d >= 15 THEN {0}
    ELSE LET X == ExpNegFix(n, d)
             F == X[2] * 10000 + X[3] + 500000
         IN  { X[1] * 100 + ((F - 20) \div 1000000),
               X[1] * 100 + ((F + 20) \div 1000000) }

\* the fraction r/d (0 <= r < d) is greater than the decimal fraction
\* 0.digits, compared digit by digit from digit i on
RECURSIVE FracExceeds(_, _, _, _)
FracExceeds(r, d, digits, i) ==
    IF i > Len(digits) THEN r > 0
    ELSE LET q == (r * 10) \div d
         IN  IF q # digits[i] THEN q > digits[i]
             ELSE FracExceeds((r * 10) % d, d, digits, i + 1)

\* n/d (n >= 0, d > 0) is greater than the decimal number ip.digits
Exceeds(n, d, ip, digits) ==
    \/ n \div d > ip
    \/ n \div d = ip /\ FracExceeds(n % d, d, digits, 1)

\* the decimals of the thresholds of a double exp, each with the margin of
\* 2 * 10^-12 taken off and put on: exp(x) is inf above 709.782712893384 and
\* 0.0 below -745.1332191019412
OverflowLo == <<7, 8, 2, 7, 1, 2, 8, 9, 3, 3, 8, 2>>
OverflowHi == <<7, 8, 2, 7, 1, 2, 8, 9, 3, 3, 8, 6>>
UnderflowLo == <<1, 3, 3, 2, 1, 9, 1, 0, 1, 9, 3, 9>>
UnderflowHi == <<1, 3, 3, 2, 1, 9, 1, 0, 1, 9, 4, 3>>

\* the results np.exp may give for the double the code holds where the
\* expression has the value x.  A double exp is 0.0 below -745.1332191019412
\* (exp(x) under half the least subnormal, 2^-1075) and inf above
\* 709.782712893384; an x within 2 * 10^-12 of a threshold may fall on
\* either side of it.  exp(-inf) is 0.0, exp(inf) is inf, exp(+-0.0) is 1.0
\* and exp(nan) is nan.  A finite result above 1.0 is only classed as such
\* ("gt1"): rbf_kernel passes no x > 0
FExp(x) ==
    CASE x.cls = "nan" -> {[cls |-> "nan", micro |-> 0]}
      [] x.cls = "ninf" -> {[cls |-> "zero", micro |-> 0]}
      [] x.cls = "pinf" -> {[cls |-> "inf", micro |-> 0]}
      [] x.cls = "nzero" -> {[cls |-> "pos", micro |-> 1000000]}
      [] x.cls = "fin" /\ x.num > 0 ->
            (IF Exceeds(x.num, x.den, 709, OverflowLo)
                THEN {[cls |-> "inf", micro |-> 0]} ELSE {})
            \cup
            (IF Exceeds(x.num, x.den, 709, OverflowHi)
                THEN {} ELSE {[cls |-> "gt1", micro |-> 0]})
      [] x.cls = "fin" /\ x.num <= 0 ->
            (IF Exceeds(-x.num, x.den, 745, UnderflowLo)
                THEN {[cls |-> "zero", micro |-> 0]} ELSE {})
            \cup
            (IF Exceeds(-x.num, x.den, 745, UnderflowHi)
                THEN {}
                ELSE {[cls |-> "pos", micro |-> m] : m \in ExpNegMicro(-x.num, x.den)})

\* ------------------------------------------------------------ rbf_kernel
\* the sum of the squared coordinate differences of two points
RECURSIVE SumSqDiff(_, _, _)
SumSqDiff(u, v, k) ==
    IF k = 0 THEN 0
    ELSE (u[k] - v[k]) * (u[k] - v[k]) + SumSqDiff(u, v, k - 1)

\* scipy.spatial.distance.cdist(XA, XB), Euclidean metric: entry (i, j) is
\* the distance between row i of XA and row j of XB
cdist(XA, XB) ==
    [i \in 1..Len(XA) |->
        [j \in 1..Len(XB) |->
            FSqrt(Fin(SumSqDiff(XA[i], XB[j], Len(XA[i])), 1))]]

\* the pairwise distances rbf_kernel takes: cdist(R, R)
PairwiseDist(R) == cdist(R, R)

\* the bandwidth used unsquared
SigmaSq_unsquared(s) == Fin(s, 100)

\* sigma ** 2, sigma given in hundredths
SigmaSq(s) == FSquare(Fin(s, 100))

\* the two divisions grouped as -(dist ** 2) / (2 / sigma ** 2)
KernelArg_misgrouped(dist, s) ==
    FDiv(FNeg(FSquare(dist)), FDiv(Fin(2, 1), SigmaSq(s)))

\* the argument of np.exp for one distance: -(dist) ** 2 / 2 / sigma ** 2,
\* which Python groups as ((-(dist ** 2)) / 2) / (sigma ** 2)
KernelArg(dist, s) == FDiv(FDiv(FNeg(FSquare(dist)), Fin(2, 1)), SigmaSq(s))

\* rbf_kernel(R, sigma): the outcomes the call may have.  The body is the
\* one expression of line 97: sigma is not inspected and numpy raises
\* nothing for a division by zero, so the call returns for every bandwidth
\* that can be written in hundredths here.  (A Python float beyond about
\* 1.34e154 makes sigma ** 2 raise OverflowError; such a bandwidth has no
\* value s.)  np.exp is one function e of the exponents of the call: the
\* coordinates are whole numbers, so equal exponents are equal doubles and
\* give equal entries
rbf_kernel(R, s) ==
    LET D == PairwiseDist(R)
        A == [i \in 1..Len(D) |-> [j \in 1..Len(D[i]) |-> KernelArg(D[i][j], s)]]
        args == {A[i][j] : i \in 1..Len(D), j \in 1..Len(D[1])}
        may == [x \in args |-> FExp(x)]
        open == {x \in args : Cardinality(may[x]) > 1}
        exp(e, x) == IF x \in open THEN e[x] ELSE CHOOSE v \in may[x] : TRUE
    IN  { [kind |-> "return", err |-> "",
           value |-> [i \in 1..Len(D) |-> [j \in 1..Len(D[i]) |-> exp(e, A[i][j])]]] :
            e \in { f \in [open -> UNION {may[x] : x \in open}] :
                      \A x \in open : f[x] \in may[x] } }

\* ---------------------------------------------------------------- inputs
\* the points of the docstring example, src line 83
ExampleR == << <<0, 1>>, <<1, 0>>, <<0, 0>>, <<1, 1>> >>

\* coordinate matrices: 1 to MaxN points of one or two coordinates each
RInputs ==
    {ExampleR} \cup
    UNION { [1..n -> [1..d -> 0..MaxCoord]] : n \in 1..MaxN, d \in {1, 2} }

\* bandwidths in hundredths: negative, zero, 0.03, 0.5, 1.0, 2.0
SigmaInputs == {-100, 0, 3, 50, 100, 200}

\* ---------------------------------------------------------------- sample
\* the errors the external routines may raise
ExtErrors == {"ValueError", "LinAlgError"}

\* kernels passed to sample: rbf_kernel of two and of three points
SampleKernels ==
    { out.value :
        out \in UNION { rbf_kernel(R, 100) :
                          R \in { << <<0>>, <<1>> >>,
                                  << <<0, 1>>, <<1, 0>>, <<0, 0>> >> } } }

\* mean point counts passed to sample
NMeanInputs == {-1, 1, 2}

\* the external random state: its successor and the count it yields
RngStep(r) == (3 * r + 1) % RngMod
RngCount(r) == r % (MaxCount + 1)

\* the random state after k draws
RECURSIVE RngAt(_, _)
RngAt(r, k) == IF k = 0 THEN r ELSE RngAt(RngStep(r), k - 1)

\* the mean count made non-negative before the external call
rescale_call_clamped(K, n_mean) ==
    [fn |-> "rescale_adjacency_matrix_thermal", K |-> K, n_mean |-> Abs(n_mean)]

\* line 137: rescale_adjacency_matrix_thermal(K, n_mean)
rescale_call(K, n_mean) ==
    [fn |-> "rescale_adjacency_matrix_thermal", K |-> K, n_mean |-> n_mean]

\* what the external rescaling returns: the rescaled eigenvalues ls, one per
\* point of K, and the matrix O, len x len
rescale_result(call) ==
    [ls |-> [name |-> "ls", len |-> Len(call.K), of |-> <<call.K, call.n_mean>>],
     O |-> [name |-> "O", len |-> Len(call.K), of |-> <<call.K, call.n_mean>>]]

\* the generator called with its default num_samples = 1
generate_call_default(ls, O, n_samples) ==
    [fn |-> "generate_thermal_samples", ls |-> ls, O |-> O, num_samples |-> 1]

\* line 138: generate_thermal_samples(ls, O, num_samples=n_samples)
generate_call(ls, O, n_samples) ==
    [fn |-> "generate_thermal_samples", ls |-> ls, O |-> O,
     num_samples |-> n_samples]

\* what the external generator returns from random state r: a list of
\* num_samples integer arrays, one count per eigenvalue of ls
generate_result(call, r) ==
    [a \in 1..call.num_samples |->
        [b \in 1..call.ls.len |->
            RngCount(RngAt(r, (a - 1) * call.ls.len + b))]]

\* the random state the generator leaves behind
generate_rng(call, r) == RngAt(r, call.num_samples * call.ls.len)

\* a state of sample's own mixed into the random state
SamplerState_percall == IF prev.kind = "none" THEN rng ELSE RngStep(rng)

\* the random state the generator draws from: sample passes none of its own,
\* so it is the external library's
SamplerState == rng

\* the array built with a float dtype
NpArray_float(rows) ==
    IF Len(rows) = 0
    THEN [dtype |-> "float64", shape |-> <<0>>, data |-> <<>>]
    ELSE [dtype |-> "float64",
          shape |-> <<Len(rows), Len(rows[1])>>,
          data |-> [k \in 1..(Len(rows) * Len(rows[1])) |->
                      rows[((k - 1) \div Len(rows[1])) + 1]
                          [((k - 1) % Len(rows[1])) + 1]]]

\* np.array(rows) of a list of equally long integer arrays: a two-dimensional
\* int64 array, row-major; of the empty list, the empty array of shape (0,)
NpArray(rows) ==
    IF Len(rows) = 0
    THEN [dtype |-> "float64", shape |-> <<0>>, data |-> <<>>]
    ELSE [dtype |-> "int64",
          shape |-> <<Len(rows), Len(rows[1])>>,
          data |-> [k \in 1..(Len(rows) * Len(rows[1])) |->
                      rows[((k - 1) \div Len(rows[1])) + 1]
                          [((k - 1) % Len(rows[1])) + 1]]]

\* one item of ndarray.tolist(): a Python int of an int64, a Python float
\* of a float64, of the same value
ToItem(dtype, v) ==
    [type |-> IF dtype = "int64" THEN "int" ELSE "float", v |-> v]

\* ndarray.tolist(): the nested list of the array's items
ToList(arr) ==
    IF Len(arr.shape) = 1
    THEN [a \in 1..arr.shape[1] |-> ToItem(arr.dtype, arr.data[a])]
    ELSE [a \in 1..arr.shape[1] |->
            [b \in 1..arr.shape[2] |->
                ToItem(arr.dtype, arr.data[(a - 1) * arr.shape[2] + b])]]

\* the exception caught and an empty batch returned in its place
sample_on_raise_swallowed(e) == [kind |-> "return", err |-> "", value |-> <<>>]

\* sample has no try/except: an exception of an external call leaves sample
\* as it was raised
sample_on_raise(e) == [kind |-> "raise", err |-> e, value |-> <<>>]

NoOutcome == [kind |-> "none", err |-> "", value |-> <<>>]
NoLocal == [name |-> "unbound", len |-> 0, of |-> <<>>]
NoCall == [kind |-> "none", seed |-> 0, K |-> <<>>, n_mean |-> 0,
           n_samples |-> 0, value |-> <<>>]

\* ------------------------------------------------------------ the callers
Init ==
    /\ kpc = "idle"
    /\ kR = <<>>
    /\ kSigma = 100
    /\ kOut = NoOutcome
    /\ spc = "idle"
    /\ sK = <<>>
    /\ sNMean = 0
    /\ sNSamples = 0
    /\ sLs = NoLocal
    /\ sO = NoLocal
    /\ sLog = <<>>
    /\ sOut = NoOutcome
    /\ rng = 0
    /\ sSeed = 0
    /\ prev = NoCall

\* one call K = rbf_kernel(R, sigma)
CallRbfKernel ==
    /\ kpc = "idle" /\ spc = "idle"
    /\ \E R \in RInputs : \E s \in SigmaInputs :
        /\ kR' = R
        /\ kSigma' = s
        /\ kOut' \in rbf_kernel(R, s)
        /\ kpc' = "returned"
    /\ UNCHANGED svars

\* the caller is done with the result: nothing of the call is kept
DropKernel ==
    /\ kpc = "returned"
    /\ kpc' = "idle"
    /\ kR' = <<>>
    /\ kSigma' = 100
    /\ kOut' = NoOutcome
    /\ UNCHANGED svars

NextKernel == CallRbfKernel \/ DropKernel

SpecKernel == Init /\ [][NextKernel]_vars

\* the caller seeds the external library's random state
SeedRng ==
    /\ spc = "idle" /\ kpc = "idle"
    /\ \E s \in 0..(RngMod - 1) : rng' = s
    /\ UNCHANGED <<sK, sNMean, sNSamples, sLs, sO, sLog, sOut, spc, sSeed, prev>>
    /\ UNCHANGED kvars

\* sample(K, n_mean, n_samples) is entered and calls the rescaling (line 137)
SampleEnter ==
    /\ spc = "idle" /\ kpc = "idle"
    /\ \E K \in SampleKernels : \E m \in NMeanInputs : \E n \in 0..MaxSamples :
        /\ sK' = K
        /\ sNMean' = m
        /\ sNSamples' = n
        /\ sLog' = <<[call |-> rescale_call(K, m), out |-> NoOutcome]>>
    /\ sSeed' = rng
    /\ spc' = "rescaling"
    /\ sOut' = NoOutcome
    /\ UNCHANGED <<sLs, sO, rng, prev>>
    /\ UNCHANGED kvars

\* the rescaling returns; ls, O are bound and the generator is called with
\* them (line 138)
RescaleReturns ==
    /\ spc = "rescaling"
    /\ LET res == rescale_result(sLog[1].call)
       IN  /\ sLs' = res.ls
           /\ sO' = res.O
           /\ sLog' = << [call |-> sLog[1].call,
                          out |-> [kind |-> "return", err |-> "",
                                   value |-> <<res.ls, res.O>>]],
                         [call |-> generate_call(res.ls, res.O, sNSamples),
                          out |-> NoOutcome] >>
    /\ spc' = "generating"
    /\ UNCHANGED <<sK, sNMean, sNSamples, sOut, rng, sSeed, prev>>
    /\ UNCHANGED kvars

\* the rescaling raises: the exception leaves sample
RescaleRaises ==
    /\ spc = "rescaling"
    /\ \E e \in ExtErrors :
        /\ sLog' = << [call |-> sLog[1].call,
                       out |-> [kind |-> "raise", err |-> e, value |-> <<>>]] >>
        /\ sOut' = sample_on_raise(e)
    /\ spc' = "raised"
    /\ UNCHANGED <<sK, sNMean, sNSamples, sLs, sO, rng, sSeed, prev>>
    /\ UNCHANGED kvars

\* the generator returns; its output is packed by np.array, unpacked by
\* tolist and returned (line 138)
GenerateReturns ==
    /\ spc = "generating"
    /\ LET rows == generate_result(sLog[2].call, SamplerState)
       IN  /\ sLog' = << sLog[1],
                         [call |-> sLog[2].call,
                          out |-> [kind |-> "return", err |-> "",
                                   value |-> rows]] >>
           /\ sOut' = [kind |-> "return", err |-> "",
                       value |-> ToList(NpArray(rows))]
    /\ rng' = generate_rng(sLog[2].call, SamplerState)
    /\ spc' = "returned"
    /\ UNCHANGED <<sK, sNMean, sNSamples, sLs, sO, sSeed, prev>>
    /\ UNCHANGED kvars

\* the generator raises: the exception leaves sample
GenerateRaises ==
    /\ spc = "generating"
    /\ \E e \in ExtErrors :
        /\ sLog' = << sLog[1],
                      [call |-> sLog[2].call,
                       out |-> [kind |-> "raise", err |-> e, value |-> <<>>]] >>
        /\ sOut' = sample_on_raise(e)
    /\ spc' = "raised"
    /\ UNCHANGED <<sK, sNMean, sNSamples, sLs, sO, rng, sSeed, prev>>
    /\ UNCHANGED kvars

\* the call is over: its locals are gone; the caller remembers the last
\* batch it was given, with the arguments and the seed it came from
SampleLeave ==
    /\ spc \in {"returned", "raised"}
    /\ prev' = IF sOut.kind = "return"
               THEN [kind |-> "call", seed |-> sSeed, K |-> sK,
                     n_mean |-> sNMean, n_samples |-> sNSamples,
                     value |-> sOut.value]
               ELSE prev
    /\ spc' = "idle"
    /\ sK' = <<>>
    /\ sNMean' = 0
    /\ sNSamples' = 0
    /\ sLs' = NoLocal
    /\ sO' = NoLocal
    /\ sLog' = <<>>
    /\ sOut' = NoOutcome
    /\ sSeed' = 0
    /\ UNCHANGED rng
    /\ UNCHANGED kvars

NextSample ==
    \/ SeedRng
    \/ SampleEnter
    \/ RescaleReturns
    \/ RescaleRaises
    \/ GenerateReturns
    \/ GenerateRaises
    \/ SampleLeave

SpecSample == Init /\ [][NextSample]_vars

Next == NextKernel \/ NextSample

Spec == Init /\ [][Next]_vars

\* ------------------------------------------------- claims on rbf_kernel
KReturned == kpc = "returned" /\ kOut.kind = "return"
KN == Len(kR)
KIdx == 1..Len(kR)
KVal == kOut.value
\* the squared Euclidean distance between points i and j of the call
KD2(i, j) == SumSqDiff(kR[i], kR[j], Len(kR[i]))
\* the double 1.0
Unit == [cls |-> "pos", micro |-> 1000000]
\* a == b for two doubles: nan compares unequal to everything
FEq(a, b) == a.cls # "nan" /\ b.cls # "nan" /\ a = b
\* exp(-d2 / (2 sigma^2)) as the claim writes it: the doubles that a double
\* exp may give for it
RefEntry(d2, s) == FExp(FNeg(FDiv(Fin(d2, 1), Fin(2 * s * s, 10000))))
\* d2 / (2 sigma^2) is beyond 745.133219101943, where a double exp is 0.0
Underflows(d2, s) ==
    LET q == Fin(d2 * 10000, 2 * s * s)
    IN  Exceeds(q.num, q.den, 745, UnderflowHi)
\* d2 / (2 sigma^2) is within 745.133219101939, where a double exp is above 0
InExpRange(d2, s) ==
    LET q == Fin(d2 * 10000, 2 * s * s)
    IN  ~Exceeds(q.num, q.den, 745, UnderflowLo)

\* C1: for a positive bandwidth the result is an N x N matrix whose entry
\* (i, j) is exp(-d(i,j)^2 / (2 sigma^2)), d the Euclidean distance of rows i
\* and j; for the docstring points and sigma = 1.0, K[0][1] = e^-1 = 0.367879
\* and K[0][2] = e^-0.5 = 0.606531
C1_KernelFormula ==
    (kpc = "returned" /\ kSigma > 0) =>
        /\ kOut.kind = "return"
        /\ Len(KVal) = KN
        /\ \A i \in KIdx :
            /\ Len(KVal[i]) = KN
            /\ \A j \in KIdx : KVal[i][j] \in RefEntry(KD2(i, j), kSigma)
        /\ (kR = ExampleR /\ kSigma = 100) =>
            /\ KVal[1][2] = [cls |-> "pos", micro |-> 367879]
            /\ KVal[1][3] = [cls |-> "pos", micro |-> 606531]

C1_Witness ==
    /\ KReturned /\ kR = ExampleR /\ kSigma = 100
    /\ KVal[1][2].micro = 367879
    /\ KVal[1][3].micro = 606531

\* C3: the result is symmetric, K[i][j] == K[j][i] for every pair of point
\* indices, whatever the coordinates and the bandwidth.  The comparison is
\* that of doubles: a nan equals nothing, itself included
C3_Symmetric ==
    kpc = "returned" =>
        /\ kOut.kind = "return"
        /\ \A i \in KIdx : \A j \in KIdx : FEq(KVal[i][j], KVal[j][i])

\* C4: the diagonal is 1.0 for every coordinate matrix and every bandwidth
\* passed
C4_DiagonalOneAnyBandwidth ==
    kpc = "returned" =>
        /\ kOut.kind = "return"
        /\ \A i \in KIdx : KVal[i][i] = Unit

\* C5 as claimed: every entry lies in (0, 1], however far apart the two
\* points are relative to the (positive) bandwidth
C5_EntriesInOpenUnit ==
    (kpc = "returned" /\ kSigma > 0) =>
        \A i \in KIdx : \A j \in KIdx :
            KVal[i][j].cls = "pos" /\ KVal[i][j].micro <= 1000000

\* C5 amended: for a positive bandwidth every entry lies in [0, 1]; it is
\* above 0 while d^2 / (2 sigma^2) stays within the range of a double exp
\* (about 745.13), and exactly 0.0 for points farther apart than that
C5_EntriesInClosedUnit ==
    (kpc = "returned" /\ kSigma > 0) =>
        /\ kOut.kind = "return"
        /\ \A i \in KIdx : \A j \in KIdx :
            /\ KVal[i][j].cls \in {"pos", "zero"}
            /\ KVal[i][j].micro >= 0 /\ KVal[i][j].micro <= 1000000
            /\ InExpRange(KD2(i, j), kSigma) => KVal[i][j].cls = "pos"
            /\ Underflows(KD2(i, j), kSigma) => KVal[i][j].cls = "zero"

C5_Witness ==
    /\ KReturned /\ kSigma > 0
    /\ \E i \in KIdx : \E j \in KIdx :
        /\ KVal[i][j] = [cls |-> "zero", micro |-> 0]
        /\ KVal[i][i] = Unit

\* C7: a zero or negative bandwidth fails with an explicit invalid-argument
\* error and no kernel matrix is returned
C7_BadBandwidthRejected ==
    (kpc = "returned" /\ kSigma <= 0) => kOut.kind = "raise"

\* ----------------------------------------------------- claims on sample
SReturned == spc = "returned" /\ sOut.kind = "return"
\* the dimension of the kernel passed to sample
SN == Len(sK)

\* C2: a call that returns gives a batch of exactly n_samples samples, each
\* of length N, the dimension of the kernel
C2_BatchShape ==
    spc = "returned" =>
        /\ sOut.kind = "return"
        /\ Len(sOut.value) = sNSamples
        /\ \A a \in 1..Len(sOut.value) : Len(sOut.value[a]) = SN

C2_Witness ==
    /\ SReturned /\ sNSamples = MaxSamples /\ SN = 3
    /\ Len(sOut.value) = MaxSamples
    /\ Len(sOut.value[1]) = 3

\* C6: an error of the rescaling or of the generator reaches the caller as
\* it was raised, each external routine is called at most once (no retry),
\* nothing is returned beside a complete batch, and after a failed rescaling
\* the generator is not called
C6_ErrorsPropagate ==
    /\ Len(sLog) <= 2
    /\ spc \in {"rescaling", "generating"} => sOut = NoOutcome
    /\ spc = "raised" =>
        /\ sLog[Len(sLog)].out.kind = "raise"
        /\ sOut = [kind |-> "raise", err |-> sLog[Len(sLog)].out.err,
                   value |-> <<>>]
    /\ (Len(sLog) >= 1 /\ sLog[1].out.kind = "raise") =>
        /\ Len(sLog) = 1
        /\ spc = "raised"
    /\ (spc # "idle" /\ sOut.kind = "return") =>
        /\ spc = "returned"
        /\ Len(sLog) = 2
        /\ sLog[1].out.kind = "return" /\ sLog[2].out.kind = "return"
        /\ Len(sOut.value) = Len(sLog[2].out.value)
        /\ \A a \in 1..Len(sOut.value) :
            Len(sOut.value[a]) = Len(sLog[2].out.value[a])

C6_Witness ==
    /\ spc = "raised"
    /\ Len(sLog) = 1
    /\ sLog[1].call.fn = "rescale_adjacency_matrix_thermal"
    /\ sOut = [kind |-> "raise", err |-> "ValueError", value |-> <<>>]

\* C8: every element of every sample returned is a non-negative integer
C8_CountsAreNaturals ==
    spc = "returned" =>
        \A a \in 1..Len(sOut.value) : \A b \in 1..Len(sOut.value[a]) :
            /\ sOut.value[a][b].type = "int"
            /\ sOut.value[a][b].v >= 0

C8_Witness ==
    /\ SReturned /\ Len(sOut.value) >= 1
    /\ \E b \in 1..Len(sOut.value[1]) :
        sOut.value[1][b] = [type |-> "int", v |-> MaxCount]
    /\ \E b \in 1..Len(sOut.value[1]) :
        sOut.value[1][b] = [type |-> "int", v |-> 0]

\* C9: two calls made with the same K, n_mean and n_samples from the same
\* external random seed return the same batch
C9_SameSeedSameBatch ==
    ( /\ spc = "returned"
      /\ prev.kind = "call"
      /\ prev.seed = sSeed
      /\ prev.K = sK
      /\ prev.n_mean = sNMean
      /\ prev.n_samples = sNSamples ) =>
        sOut.value = prev.value

C9_Witness ==
    /\ SReturned /\ prev.kind = "call"
    /\ prev.seed = sSeed /\ prev.K = sK
    /\ prev.n_mean = sNMean /\ prev.n_samples = sNSamples
    /\ sNSamples >= 1
    /\ sOut.value = prev.value
    /\ rng # sSeed

\* C10: a call invokes the rescaling once with K and n_mean as given, then,
\* only once that has returned, the generator once with the two values the
\* rescaling returned and num_samples = n_samples, then returns the
\* generator's output as a nested list
C10_CallSequence ==
    /\ spc = "idle" => sLog = <<>>
    /\ spc # "idle" =>
        /\ Len(sLog) \in {1, 2}
        /\ sLog[1].call = [fn |-> "rescale_adjacency_matrix_thermal",
                           K |-> sK, n_mean |-> sNMean]
        /\ (spc = "rescaling") <=> (sLog[1].out.kind = "none")
    /\ Len(sLog) = 2 =>
        /\ sLog[1].out.kind = "return"
        /\ sLog[2].call = [fn |-> "generate_thermal_samples",
                           ls |-> sLog[1].out.value[1],
                           O |-> sLog[1].out.value[2],
                           num_samples |-> sNSamples]
    /\ spc = "returned" =>
        /\ Len(sLog) = 2
        /\ sLog[2].out.kind = "return"
        /\ Len(sOut.value) = Len(sLog[2].out.value)
        /\ \A a \in 1..Len(sOut.value) :
            /\ Len(sOut.value[a]) = Len(sLog[2].out.value[a])
            /\ \A b \in 1..Len(sOut.value[a]) :
                sOut.value[a][b] =
                    [type |-> "int", v |-> sLog[2].out.value[a][b]]

C10_Witness ==
    /\ SReturned /\ Len(sLog) = 2
    /\ sNMean = -1 /\ sLog[1].call.n_mean = -1
    /\ sLog[2].call.num_samples = MaxSamples
    /\ Len(sOut.value) = MaxSamples
====
